---- MODULE Spec2Model ----
(***************************************************************************)
(* The ledger-based MemManager: an intrusive free-list allocator.  The    *)
(* free list lives inside the memory it tracks: a node at address p keeps *)
(* its successor in the word at p and its byte size in the word at        *)
(* p + sizeof(void* ).  Memory is therefore modelled word by word, so     *)
(* that a header written over another header, or past the end of a        *)
(* region, lands where the code puts it.                                   *)
(***************************************************************************)
EXTENDS Integers, FiniteSets, Sequences, TLC

VARIABLES
    top,           \* MemManager::top, the head of the free list (0 = nullptr)
    mem,           \* raw memory, one entry per 8-byte word
    alloc_blocks,  \* MemManager::alloc_blocks, the ledger: address -> size
    align_size,    \* MemManager::align_size, fixed by the constructor
    hoist,         \* the build reads a size_t before an earlier void* store
    scenario,      \* which memory layout the caller works with
    registered,    \* regions the caller registered successfully (history)
    last,          \* the last call: operation, argument, outcome, result
    calls          \* number of calls made so far

vars == <<top, mem, alloc_blocks, align_size, hoist, scenario, registered, last, calls>>

-----------------------------------------------------------------------------
(* Sizes and bounds *)

\* sizeof(void*) = sizeof(size_t) on the LP64 targets the code assumes.
WordSize == 8

\* sizeof(void*) + sizeof(size_t): what add_block demands of a block.
HeaderSize == WordSize + WordSize

\* size_t is modelled 16 bits wide instead of 64: every address and size of
\* the model is far below 2^16, so the only wrap-around that occurs is the
\* one that occurs at 64 bits as well, a subtraction below zero.
SizeBits == 16

SizeMod == 2 ^ SizeBits

NULL == 0

\* Words of the small arena the caller carves its regions from.
ArenaWords == 6

\* Calls the caller makes in one run.
MaxCalls == 6

\* Word index of the arena's first byte.  The arena lies well above every
\* size the caller can ask for and well below the wrap-around, as addresses
\* do on the code's targets: a size read as a pointer is no valid address,
\* and a pointer read as a size exceeds the arena.
BaseWord == 512

\* Bytes and words of the single region of the 256-byte scenario.
BigBytes == 32 * WordSize

BigWords == BigBytes \div WordSize

\* The same memory handed over in quarters of 64 bytes.
QuarterBytes == BigBytes \div 4

Base == BaseWord * WordSize

Scenarios == {"small", "big"}

NWords(sc) == IF sc = "big" THEN BigWords ELSE ArenaWords

ArenaEnd(sc) == Base + WordSize * NWords(sc)

\* The modelled memory: the arena and one word behind it.
Addrs == {Base + WordSize * i : i \in 0..NWords(scenario)}

\* Longest walk of an acyclic list, plus one.
Fuel == NWords(scenario) + 2

-----------------------------------------------------------------------------
(* Header accessors *)

get_next(m, p) == m[p]

get_size(m, p) == m[p + WordSize]

\* Both header words of p lie in the modelled memory.
IsNode(p) == p \in Addrs /\ (p + WordSize) \in Addrs

\* check_alignment throws exactly when this is FALSE.
Aligned(al, p) == p % al = 0

Res(st, t, m, a, r) == [st |-> st, top |-> t, mem |-> m, alloc |-> a, ret |-> r]

\* Outcomes after which the call has not returned normally.
Throws == {"too_small", "bad_align", "bad_alloc", "unknown_ptr"}
Stuck == {"fault", "hang"}

-----------------------------------------------------------------------------
(* get_prev *)

RECURSIVE get_prev_loop(_, _, _, _)
get_prev_loop(m, ret, ptr, fuel) ==
    IF ~IsNode(ret) THEN [st |-> "fault", val |-> NULL]
    ELSE IF fuel = 0 THEN [st |-> "hang", val |-> NULL]
    ELSE IF get_next(m, ret) = NULL THEN [st |-> "ok", val |-> ret]
    ELSE IF get_next(m, ret) > ptr THEN [st |-> "ok", val |-> ret]
    ELSE get_prev_loop(m, get_next(m, ret), ptr, fuel - 1)

get_prev(t, m, ptr) ==
    IF t > ptr THEN [st |-> "ok", val |-> NULL]
    ELSE get_prev_loop(m, t, ptr, Fuel)

-----------------------------------------------------------------------------
(* add_block_fast *)

add_block_fast(t, m, a, block, block_size) ==
    IF block_size = 0 THEN Res("ok", t, m, a, NULL)
    ELSE IF block_size < HeaderSize THEN Res("too_small", t, m, a, NULL)
    ELSE IF ~Aligned(align_size, block) THEN Res("bad_align", t, m, a, NULL)
    ELSE IF ~IsNode(block) THEN Res("fault", t, m, a, NULL)
    ELSE LET m1 == [m EXCEPT ![block] = t]
             m2 == [m1 EXCEPT ![block + WordSize] = block_size]
         IN  Res("ok", block, m2, a, NULL)

-----------------------------------------------------------------------------
(* add_block *)

\* "Append or link next to block"
link_next(m, block, block_size, next) ==
    IF (block + block_size) % SizeMod = next
    THEN LET m1 == [m EXCEPT ![block] = get_next(m, next)]
         IN  [m1 EXCEPT ![block + WordSize]
                           = (block_size + get_size(m1, next)) % SizeMod]
    ELSE LET m1 == [m EXCEPT ![block] = next]
         IN  [m1 EXCEPT ![block + WordSize] = block_size]

\* "Append or link block to prev", prev not null.  m0 is the memory before
\* "Append or link next to block", m the memory after it.  When prev lies
\* one word below block, get_size(prev) is the word get_next(block) was just
\* stored to through a void*&: the build that reads first sees the old word.
link_prev(m0, m, prev, block) ==
    LET psize == IF hoist /\ prev + WordSize = block
                 THEN get_size(m0, prev) ELSE get_size(m, prev)
    IN  IF (prev + psize) % SizeMod = block
        THEN LET m1 == [m EXCEPT ![prev] = get_next(m, block)]
             IN  [m1 EXCEPT ![prev + WordSize]
                               = (psize + get_size(m1, block)) % SizeMod]
        ELSE [m EXCEPT ![prev] = block]

add_block(t, m, a, block, block_size) ==
    IF block_size = 0 THEN Res("ok", t, m, a, NULL)
    ELSE IF block_size < HeaderSize THEN Res("too_small", t, m, a, NULL)
    ELSE IF ~Aligned(align_size, block) THEN Res("bad_align", t, m, a, NULL)
    ELSE IF ~IsNode(block) THEN Res("fault", t, m, a, NULL)
    ELSE IF t = NULL
    THEN LET m1 == [m EXCEPT ![block] = t]
             m2 == [m1 EXCEPT ![block + WordSize] = block_size]
         IN  Res("ok", block, m2, a, NULL)
    ELSE LET pv == get_prev(t, m, block) IN
         IF pv.st # "ok" THEN Res(pv.st, t, m, a, NULL)
         ELSE LET prev == pv.val
                  next == IF prev # NULL THEN get_next(m, prev) ELSE t
                  merges == (block + block_size) % SizeMod = next
              IN  IF merges /\ ~IsNode(next) THEN Res("fault", t, m, a, NULL)
                  ELSE LET m1 == link_next(m, block, block_size, next)
                       IN  IF prev = NULL THEN Res("ok", block, m1, a, NULL)
                           ELSE Res("ok", t, link_prev(m, m1, prev, block), a, NULL)

-----------------------------------------------------------------------------
(* malloc *)

\* The header fields are reached by casting the same bytes to void*& and to
\* size_t&.  When req_size is one word, get_next(new_free) is the word of
\* get_size(ptr): the store to the former and the load of the latter that
\* follows it alias through unrelated types, and the build may do the load
\* first or after the store.  hoist says which build runs; add_block has one
\* such pair of accesses as well (link_prev).

\* Faulty variant of req_size: the request is not rounded up.
req_size_exact(al, bytes) == bytes

\* req_size of malloc<T>(N), bytes = N * sizeof(T)
req_size(al, bytes) ==
    LET mod_size == bytes % al
    IN  IF mod_size = 0 THEN bytes ELSE (bytes + al - mod_size) % SizeMod

\* The first-fit walk: the node found and its predecessor in the walk.
RECURSIVE malloc_loop(_, _, _, _, _)
malloc_loop(m, ptr, prev, req, fuel) ==
    IF ptr = NULL THEN [st |-> "ok", ptr |-> NULL, prev |-> prev]
    ELSE IF ~IsNode(ptr) THEN [st |-> "fault", ptr |-> ptr, prev |-> prev]
    ELSE IF fuel = 0 THEN [st |-> "hang", ptr |-> ptr, prev |-> prev]
    ELSE IF get_size(m, ptr) < req
         THEN malloc_loop(m, get_next(m, ptr), ptr, req, fuel - 1)
         ELSE [st |-> "ok", ptr |-> ptr, prev |-> prev]

malloc(t, m, a, bytes) ==
    LET req == req_size(align_size, bytes) IN
    IF t = NULL THEN Res("bad_alloc", t, m, a, NULL)
    ELSE LET w == malloc_loop(m, t, NULL, req, Fuel)
             ptr == w.ptr
             prev == w.prev
         IN
         IF w.st # "ok" THEN Res(w.st, t, m, a, NULL)
         ELSE IF ptr = NULL THEN Res("bad_alloc", t, m, a, NULL)
         ELSE LET a2 == [x \in (DOMAIN a) \cup {ptr} |->
                            IF x = ptr THEN req ELSE a[x]]
              IN
              IF req = get_size(m, ptr)
              THEN IF prev # NULL
                   THEN Res("ok", t, [m EXCEPT ![prev] = get_next(m, ptr)], a2, ptr)
                   ELSE Res("ok", get_next(m, ptr), m, a2, ptr)
              ELSE LET new_free == (ptr + req) % SizeMod IN
                   IF ~IsNode(new_free) THEN Res("fault", t, m, a, NULL)
                   ELSE LET m1 == [m EXCEPT ![new_free] = get_next(m, ptr)]
                            old == IF hoist THEN get_size(m, ptr)
                                            ELSE get_size(m1, ptr)
                            m2 == [m1 EXCEPT ![new_free + WordSize]
                                      = (old - req) % SizeMod]
                        IN  IF t = ptr THEN Res("ok", new_free, m2, a2, ptr)
                            ELSE Res("ok", t, [m2 EXCEPT ![prev] = new_free], a2, ptr)

-----------------------------------------------------------------------------
(* free, free_fast *)

erase(a, ptr) == [x \in (DOMAIN a) \ {ptr} |-> a[x]]

\* Faulty variant of free: an address the ledger does not know is trusted
\* and inserted as a block of header size.
free_trusting(t, m, a, ptr) ==
    IF ptr \notin DOMAIN a THEN add_block(t, m, a, ptr, HeaderSize)
    ELSE LET r == add_block(t, m, a, ptr, a[ptr])
         IN  IF r.st # "ok" THEN r
             ELSE Res("ok", r.top, r.mem, erase(a, ptr), NULL)

free(t, m, a, ptr) ==
    IF ptr \notin DOMAIN a THEN Res("unknown_ptr", t, m, a, NULL)
    ELSE LET r == add_block(t, m, a, ptr, a[ptr])
         IN  IF r.st # "ok" THEN r
             ELSE Res("ok", r.top, r.mem, erase(a, ptr), NULL)

free_fast(t, m, a, ptr) ==
    IF ptr \notin DOMAIN a THEN Res("unknown_ptr", t, m, a, NULL)
    ELSE LET r == add_block_fast(t, m, a, ptr, a[ptr])
         IN  IF r.st # "ok" THEN r
             ELSE Res("ok", r.top, r.mem, erase(a, ptr), NULL)

-----------------------------------------------------------------------------
(* defrag *)

\* The while loop of defrag: cur is the list rebuilt so far, ptr the next
\* node of the detached chain.
RECURSIVE defrag_loop(_, _, _, _, _)
defrag_loop(cur, m, a, ptr, fuel) ==
    IF ptr = NULL THEN Res("ok", cur, m, a, NULL)
    ELSE IF ~IsNode(ptr) THEN Res("fault", cur, m, a, NULL)
    ELSE IF fuel = 0 THEN Res("hang", cur, m, a, NULL)
    ELSE LET next == get_next(m, ptr)
             r == add_block(cur, m, a, ptr, get_size(m, ptr))
         IN  IF r.st # "ok" THEN r
             ELSE defrag_loop(r.top, r.mem, a, next, fuel - 1)

defrag(t, m, a) == defrag_loop(NULL, m, a, t, Fuel + Fuel)

-----------------------------------------------------------------------------
(* The caller *)

\* Alignments the constructor is given: the default sizeof(size_t), and the
\* header size.
Alignments == {WordSize, HeaderSize}

\* What never-written memory may hold.
Fill == {0, SizeMod - 1}

\* Regions the caller may register: (address, size in bytes).
RegionPool(sc) ==
    IF sc = "big"
    THEN {<<Base, BigBytes>>}
         \cup {<<Base + QuarterBytes * i, QuarterBytes>> : i \in 0..3}
    ELSE {<<Base + WordSize * i, WordSize * n>> :
             i \in 0..(ArenaWords - 1), n \in 0..ArenaWords}
         \cup {<<Base + 4, HeaderSize>>}

\* N * sizeof(T) of the malloc<T>(N) calls the caller makes.
\* The last one is a request of nearly the whole address space.
ReqPool(sc) ==
    IF sc = "big" THEN {QuarterBytes, 100, 200}
    ELSE {0, 8, 12, 16, 24, SizeMod - 4}

\* The byte ranges [b1, b1 + s1) and [b2, b2 + s2) share a byte.
Overlap(b1, s1, b2, s2) == s1 > 0 /\ s2 > 0 /\ b1 < b2 + s2 /\ b2 < b1 + s1

\* A region the caller owns and has not handed over before.
Fresh(b, sz) ==
    /\ b + sz <= ArenaEnd(scenario)
    /\ \A r \in registered : ~Overlap(b, sz, r[1], r[2])

Empty == [x \in {} |-> 0]

Init ==
    /\ top = NULL
    /\ scenario \in Scenarios
    /\ align_size \in Alignments
    /\ hoist \in BOOLEAN
    /\ \E v \in Fill : mem = [x \in Addrs |-> v]
    /\ alloc_blocks = Empty
    /\ registered = {}
    /\ last = [op |-> "new", x |-> 0, st |-> "ok", ret |-> NULL, again |-> FALSE]
    /\ calls = 0

Releases == {"free", "free_fast"}

\* The call op(x) ran with outcome r.  A call that never returns (a wild
\* access, an endless loop) ends the run.  "again" marks a call that repeats
\* the call before it, which returned normally: a release of the address
\* just released, a defrag after a defrag.
Call(op, x, r) ==
    /\ last.st \notin Stuck
    /\ calls < MaxCalls
    /\ calls' = calls + 1
    /\ last' = [op |-> op, x |-> x, st |-> r.st, ret |-> r.ret,
                again |-> /\ \/ op \in Releases /\ last.op \in Releases
                             \/ op = "defrag" /\ last.op = "defrag"
                          /\ last.st = "ok"
                          /\ last.x = x]
    /\ IF r.st \in Stuck
       THEN UNCHANGED <<top, mem, alloc_blocks>>
       ELSE /\ top' = r.top
            /\ mem' = r.mem
            /\ alloc_blocks' = r.alloc
    /\ UNCHANGED <<align_size, hoist, scenario>>

\* Addresses the caller passes to free and free_fast: those of its live
\* allocations, the one it has just released (a double free), and one it
\* never got from malloc (the head of the free list, or nullptr).
ReleasePool ==
    (DOMAIN alloc_blocks) \cup {top}
        \cup (IF last.op \in Releases THEN {last.x} ELSE {})

Register(b, sz, r) ==
    registered' = IF r.st = "ok" /\ sz > 0
                  THEN registered \cup {<<b, sz>>} ELSE registered

AddBlock ==
    \E reg \in RegionPool(scenario) :
        /\ Fresh(reg[1], reg[2])
        /\ LET r == add_block(top, mem, alloc_blocks, reg[1], reg[2])
           IN  Call("add_block", reg[1], r) /\ Register(reg[1], reg[2], r)

AddBlockFast ==
    \E reg \in RegionPool(scenario) :
        /\ Fresh(reg[1], reg[2])
        /\ LET r == add_block_fast(top, mem, alloc_blocks, reg[1], reg[2])
           IN  Call("add_block_fast", reg[1], r) /\ Register(reg[1], reg[2], r)

Malloc ==
    \E bytes \in ReqPool(scenario) :
        /\ Call("malloc", bytes, malloc(top, mem, alloc_blocks, bytes))
        /\ UNCHANGED registered

Free ==
    \E p \in ReleasePool :
        /\ Call("free", p, free(top, mem, alloc_blocks, p))
        /\ UNCHANGED registered

FreeFast ==
    \E p \in ReleasePool :
        /\ Call("free_fast", p, free_fast(top, mem, alloc_blocks, p))
        /\ UNCHANGED registered

Defrag ==
    /\ Call("defrag", 0, defrag(top, mem, alloc_blocks))
    /\ UNCHANGED registered

Next == AddBlock \/ AddBlockFast \/ Malloc \/ Free \/ FreeFast \/ Defrag

Spec == Init /\ [][Next]_vars

-----------------------------------------------------------------------------
(* Reading the free list off a state *)

\* The addresses met on the way from p along the next fields; the walk stops
\* at nullptr, at an address outside the memory, and after Fuel nodes.
RECURSIVE Walk(_, _, _)
Walk(m, p, fuel) ==
    IF p = NULL \/ ~IsNode(p) \/ fuel = 0 THEN <<>>
    ELSE <<p>> \o Walk(m, get_next(m, p), fuel - 1)

\* The walk from p ends at nullptr.
RECURSIVE Terminates(_, _, _)
Terminates(m, p, fuel) ==
    IF p = NULL THEN TRUE
    ELSE IF ~IsNode(p) \/ fuel = 0 THEN FALSE
    ELSE Terminates(m, get_next(m, p), fuel - 1)

\* The free list as the sequence of its nodes, (address, size).
FreeList(t, m) ==
    LET w == Walk(m, t, Fuel)
    IN  [i \in 1..Len(w) |-> <<w[i], get_size(m, w[i])>>]

NodeSet(t, m) == {FreeList(t, m)[i] : i \in 1..Len(FreeList(t, m))}

RECURSIVE SumSizes(_)
SumSizes(S) ==
    IF S = {} THEN 0
    ELSE LET e == CHOOSE e \in S : TRUE IN e[2] + SumSizes(S \ {e})

\* Total of the size fields of the nodes reachable from top.
FreeBytes(t, m) == SumSizes(NodeSet(t, m))

LedgerSet(a) == {<<p, a[p]>> : p \in DOMAIN a}

LedgerBytes(a) == SumSizes(LedgerSet(a))

\* The words of the modelled memory that lie in some free node.
FreeWords(t, m) ==
    {x \in Addrs : \E n \in NodeSet(t, m) : n[1] <= x /\ x < n[1] + n[2]}

\* Strictly address-sorted, and no node ends where its successor starts.
Canonical(t, m) ==
    LET fl == FreeList(t, m) IN
    /\ Terminates(m, t, Fuel)
    /\ \A i \in 1..(Len(fl) - 1) :
          /\ fl[i][1] < fl[i + 1][1]
          /\ fl[i][1] + fl[i][2] # fl[i + 1][1]

Returned(r) == r.st \notin Stuck

\* r left top, every word of the memory and the ledger as they are.
SameState(r) == r.top = top /\ r.mem = mem /\ r.alloc = alloc_blocks

\* r left top, the headers of the nodes of the free list and the ledger as
\* they are.
SameList(r) ==
    /\ r.top = top
    /\ FreeList(r.top, r.mem) = FreeList(top, mem)
    /\ r.alloc = alloc_blocks

-----------------------------------------------------------------------------
(* C1 *)

\* C1: no two nodes of the free list overlap, and no node of the free list
\* overlaps an allocation recorded in the ledger.
C1_NoOverlap ==
    /\ \A n1, n2 \in NodeSet(top, mem) :
          n1[1] # n2[1] => ~Overlap(n1[1], n1[2], n2[1], n2[2])
    /\ \A n \in NodeSet(top, mem) : \A p \in DOMAIN alloc_blocks :
          ~Overlap(n[1], n[2], p, alloc_blocks[p])

-----------------------------------------------------------------------------
(* C2 *)

RegisteredBytes == SumSizes(registered)

\* C2: the sizes of the nodes reachable from top and the sizes recorded in
\* the ledger add up to the sizes of the regions registered.
C2_Conservation ==
    FreeBytes(top, mem) + LedgerBytes(alloc_blocks) = RegisteredBytes

-----------------------------------------------------------------------------
(* C3 *)

\* C3: when defrag returns, the free list is strictly sorted by address and
\* no node ends where its successor starts.
C3_DefragCanonical ==
    LET r == defrag(top, mem, alloc_blocks)
    IN  r.st = "ok" => Canonical(r.top, r.mem)

-----------------------------------------------------------------------------
(* C4 *)

\* C4: free and free_fast of an address that is no key of the ledger fail
\* with the unknown-pointer error and change neither the ledger nor the list.
C4_UnknownPointer ==
    \A p \in (Addrs \cup {NULL}) \ DOMAIN alloc_blocks :
        /\ free(top, mem, alloc_blocks, p).st = "unknown_ptr"
        /\ SameState(free(top, mem, alloc_blocks, p))
        /\ free_fast(top, mem, alloc_blocks, p).st = "unknown_ptr"
        /\ SameState(free_fast(top, mem, alloc_blocks, p))

\* An address was released and then released again.
C4_Witness ==
    /\ last.op \in Releases /\ last.again
    /\ last.st = "unknown_ptr"

-----------------------------------------------------------------------------
(* C5 *)

\* C5: every address in the ledger can be released: free and free_fast
\* return normally, drop the entry and give its bytes back to the free list.
C5_ReleaseSucceeds ==
    \A p \in DOMAIN alloc_blocks :
        \A r \in {free(top, mem, alloc_blocks, p),
                  free_fast(top, mem, alloc_blocks, p)} :
            /\ r.st = "ok"
            /\ p \notin DOMAIN r.alloc
            /\ FreeBytes(r.top, r.mem) = FreeBytes(top, mem) + alloc_blocks[p]

-----------------------------------------------------------------------------
(* C6 *)

\* Every call the caller can make in the current state, with its outcome.
Outcomes ==
    {add_block(top, mem, alloc_blocks, reg[1], reg[2]) :
        reg \in {g \in RegionPool(scenario) : Fresh(g[1], g[2])}}
    \cup {add_block_fast(top, mem, alloc_blocks, reg[1], reg[2]) :
        reg \in {g \in RegionPool(scenario) : Fresh(g[1], g[2])}}
    \cup {malloc(top, mem, alloc_blocks, b) : b \in ReqPool(scenario)}
    \cup {free(top, mem, alloc_blocks, p) : p \in ReleasePool}
    \cup {free_fast(top, mem, alloc_blocks, p) : p \in ReleasePool}
    \cup {defrag(top, mem, alloc_blocks)}

\* C6: a call that raises an error leaves top, the header of every node and
\* the ledger as they were.
C6_AllOrNothing ==
    \A r \in Outcomes : r.st \in Throws => SameList(r)

-----------------------------------------------------------------------------
(* C7 *)

\* C7: with an empty ledger, malloc followed by free of the address it
\* returned leaves the free list as it was.
C7_RoundTrip ==
    alloc_blocks = Empty =>
        \A b \in ReqPool(scenario) :
            LET r == malloc(top, mem, alloc_blocks, b) IN
            r.st = "ok" =>
                LET f == free(r.top, r.mem, r.alloc, r.ret) IN
                /\ f.st = "ok"
                /\ FreeList(f.top, f.mem) = FreeList(top, mem)

-----------------------------------------------------------------------------
(* C8 *)

\* C8: a second defrag changes nothing the first one left.
C8_DefragIdempotent ==
    LET d1 == defrag(top, mem, alloc_blocks) IN
    Returned(d1) =>
        LET d2 == defrag(d1.top, d1.mem, d1.alloc) IN
        /\ Returned(d2)
        /\ FreeList(d2.top, d2.mem) = FreeList(d1.top, d1.mem)
        /\ d2.alloc = d1.alloc

-----------------------------------------------------------------------------
(* C9 *)

\* Alignment 8, and the 256-byte region is registered and wholly free.
C9_Ready ==
    /\ scenario = "big" /\ align_size = 8
    /\ registered = {<<Base, BigBytes>>}
    /\ alloc_blocks = Empty
    /\ FreeList(top, mem) = << <<Base, BigBytes>> >>

\* C9 as stated: malloc of 100 bytes returns the region's start and leaves
\* one free node of 156 bytes at offset 100.
C9_AsStated ==
    C9_Ready =>
        LET r == malloc(top, mem, alloc_blocks, 100) IN
        /\ r.st = "ok" /\ r.ret = Base
        /\ FreeList(r.top, r.mem) = << <<Base + 100, 156>> >>

\* C9 amended: malloc of 100 bytes returns the region's start, records 104
\* bytes and leaves one free node of 152 bytes at offset 104.
C9_Rounded ==
    C9_Ready =>
        LET r == malloc(top, mem, alloc_blocks, 100) IN
        /\ r.st = "ok" /\ r.ret = Base
        /\ r.alloc = (Base :> 104)
        /\ FreeList(r.top, r.mem) = << <<Base + 104, 152>> >>

\* The 100 bytes have just been allocated from the fresh 256-byte region.
C9_Witness ==
    /\ scenario = "big" /\ align_size = 8
    /\ registered = {<<Base, BigBytes>>}
    /\ calls = 2
    /\ last.op = "malloc" /\ last.x = 100 /\ last.st = "ok"

-----------------------------------------------------------------------------
(* C10 *)

\* C10: defrag leaves the ledger, the free bytes and their number as they
\* were.
C10_DefragFrame ==
    LET r == defrag(top, mem, alloc_blocks) IN
    Returned(r) =>
        /\ r.alloc = alloc_blocks
        /\ FreeWords(r.top, r.mem) = FreeWords(top, mem)
        /\ FreeBytes(r.top, r.mem) = FreeBytes(top, mem)

-----------------------------------------------------------------------------
(* C11 *)

\* C11: every node reachable from top has a size of at least the header
\* size and an address that is a multiple of align_size.
C11_HeaderInvariant ==
    \A n \in NodeSet(top, mem) :
        n[2] >= HeaderSize /\ Aligned(align_size, n[1])

-----------------------------------------------------------------------------
(* C12 *)

\* The region [b, b + sz) shares no byte with a node of the free list.
ClearOfNodes(b, sz) ==
    \A n \in NodeSet(top, mem) : ~Overlap(b, sz, n[1], n[2])

\* Every ordered call the caller can make in the current state with a
\* region that is clear of the free list, with its outcome.
OrderedOutcomes ==
    {add_block(top, mem, alloc_blocks, reg[1], reg[2]) :
        reg \in {g \in RegionPool(scenario) :
                    Fresh(g[1], g[2]) /\ ClearOfNodes(g[1], g[2])}}
    \cup {malloc(top, mem, alloc_blocks, b) : b \in ReqPool(scenario)}
    \cup {free(top, mem, alloc_blocks, p) :
        p \in {q \in DOMAIN alloc_blocks : ClearOfNodes(q, alloc_blocks[q])}}

\* C12: add_block, malloc and free, called on a canonical free list with a
\* region that is clear of the free list, leave the free list canonical.
C12_OrderedKeepCanonical ==
    Canonical(top, mem) =>
        \A r \in OrderedOutcomes : Returned(r) => Canonical(r.top, r.mem)

-----------------------------------------------------------------------------
(* C13 *)

\* The free list fl with the nodes at positions i and i + 1 replaced by the
\* single node n.
Fused(fl, i, n) ==
    [j \in 1..(Len(fl) - 1) |->
        IF j < i THEN fl[j] ELSE IF j = i THEN n ELSE fl[j + 1]]

\* add_block of reg finds the node at position i of the free list as its
\* predecessor, reg starts where that node ends and ends where the node at
\* position i + 1 starts.
Bridges(reg, i) ==
    LET fl == FreeList(top, mem) IN
    /\ get_prev(top, mem, reg[1]) = [st |-> "ok", val |-> fl[i][1]]
    /\ fl[i][1] + fl[i][2] = reg[1]
    /\ reg[1] + reg[2] = fl[i + 1][1]

\* C13: add_block of a region that starts at the end of its predecessor
\* and ends at the start of its successor turns the three into one node at
\* the predecessor's address, of the sum of the three sizes (a size_t sum,
\* as the code's += at lines 261 and 269), followed by the successor's
\* former successor; the other nodes and the ledger stay.
C13_TwoSidedMerge ==
    LET fl == FreeList(top, mem) IN
    \A reg \in {g \in RegionPool(scenario) : Fresh(g[1], g[2])} :
        \A i \in 1..(Len(fl) - 1) :
            Bridges(reg, i) /\ reg[2] >= HeaderSize =>
                LET r == add_block(top, mem, alloc_blocks, reg[1], reg[2]) IN
                /\ r.st = "ok"
                /\ r.top = top
                /\ r.alloc = alloc_blocks
                /\ FreeList(r.top, r.mem) =
                       Fused(fl, i, <<fl[i][1],
                           (fl[i][2] + reg[2] + fl[i + 1][2]) % SizeMod>>)

-----------------------------------------------------------------------------
(* C14 *)

\* Position in fl of the first node of size at least req, 0 if there is none.
FirstFit(fl, req) ==
    IF \E i \in 1..Len(fl) : fl[i][2] >= req
    THEN CHOOSE i \in 1..Len(fl) :
             /\ fl[i][2] >= req
             /\ \A j \in 1..(i - 1) : fl[j][2] < req
    ELSE 0

\* fl without the node at position i.
Without(fl, i) ==
    [j \in 1..(Len(fl) - 1) |-> IF j < i THEN fl[j] ELSE fl[j + 1]]

\* fl with the node at position i replaced by n.
Replaced(fl, i, n) == [j \in 1..Len(fl) |-> IF j = i THEN n ELSE fl[j]]

\* C14: a malloc that succeeds returns the address of the first node, in
\* list order, of size at least the rounded request.  On an exact fit the
\* node leaves the list; otherwise a remainder node at address + request,
\* of size old size - request, takes its place.  The other nodes stay.
C14_FirstFit ==
    \A b \in ReqPool(scenario) :
        LET r == malloc(top, mem, alloc_blocks, b)
            req == req_size(align_size, b)
            fl == FreeList(top, mem)
            i == FirstFit(fl, req)
        IN  r.st = "ok" =>
            /\ i # 0
            /\ r.ret = fl[i][1]
            /\ Terminates(r.mem, r.top, Fuel) = Terminates(mem, top, Fuel)
            /\ FreeList(r.top, r.mem) =
                   IF fl[i][2] = req THEN Without(fl, i)
                   ELSE Replaced(fl, i, <<fl[i][1] + req, fl[i][2] - req>>)

-----------------------------------------------------------------------------
(* C15 *)

\* C15: malloc raises the out-of-memory error, and changes neither the free
\* list nor the ledger, when no node of the free list has the size of the
\* rounded request; it succeeds when one has.
C15_OutOfMemory ==
    \A b \in ReqPool(scenario) :
        LET r == malloc(top, mem, alloc_blocks, b)
            fits == FirstFit(FreeList(top, mem), req_size(align_size, b)) # 0
        IN  /\ fits => r.st = "ok"
            /\ ~fits => r.st = "bad_alloc" /\ SameList(r)

-----------------------------------------------------------------------------
(* C16 *)

\* The smallest multiple of al that is at least b, as a number.
RoundedUp(al, b) == ((b + al - 1) \div al) * al

\* C16: the size malloc records in the ledger is the smallest multiple of
\* align_size that is at least the number of bytes asked for.
C16_Rounding ==
    \A b \in ReqPool(scenario) :
        LET r == malloc(top, mem, alloc_blocks, b) IN
        r.st = "ok" =>
            /\ r.alloc[r.ret] = RoundedUp(align_size, b)
            /\ r.alloc[r.ret] % align_size = 0
            /\ r.alloc[r.ret] >= b

-----------------------------------------------------------------------------
(* C17 *)

\* C17: add_block_fast of an aligned block of at least the header size puts
\* the block, with its size, in front of the free list and changes no other
\* node and not the ledger; with size 0 it changes nothing and returns.
C17_PrependFrame ==
    \A reg \in {g \in RegionPool(scenario) : Fresh(g[1], g[2])} :
        LET r == add_block_fast(top, mem, alloc_blocks, reg[1], reg[2]) IN
        /\ reg[2] >= HeaderSize /\ Aligned(align_size, reg[1]) =>
              /\ r.st = "ok"
              /\ r.top = reg[1]
              /\ get_next(r.mem, reg[1]) = top
              /\ FreeList(r.top, r.mem) = <<reg>> \o FreeList(top, mem)
              /\ r.alloc = alloc_blocks
        /\ reg[2] = 0 => r.st = "ok" /\ SameState(r)

-----------------------------------------------------------------------------
(* C18: the MemManager of src/memmanager.hpp *)

\* This variant keeps no ledger, its get_prev has no case for a block below
\* top, and its malloc returns nullptr where the other throws.  The header
\* accessors, add_block_fast and the two linking steps of add_block read
\* the same in both files.

get_prev_hpp(t, m, ptr) == get_prev_loop(m, t, ptr, Fuel)

add_block_fast_hpp(t, m, a, block, block_size) ==
    add_block_fast(t, m, a, block, block_size)

add_block_hpp(t, m, a, block, block_size) ==
    IF block_size = 0 THEN Res("ok", t, m, a, NULL)
    ELSE IF block_size < HeaderSize THEN Res("too_small", t, m, a, NULL)
    ELSE IF ~Aligned(align_size, block) THEN Res("bad_align", t, m, a, NULL)
    ELSE IF ~IsNode(block) THEN Res("fault", t, m, a, NULL)
    ELSE IF t = NULL
    THEN LET m1 == [m EXCEPT ![block] = t]
             m2 == [m1 EXCEPT ![block + WordSize] = block_size]
         IN  Res("ok", block, m2, a, NULL)
    ELSE LET pv == get_prev_hpp(t, m, block) IN
         IF pv.st # "ok" THEN Res(pv.st, t, m, a, NULL)
         ELSE LET prev == pv.val
                  next == get_next(m, prev)
                  merges == (block + block_size) % SizeMod = next
              IN  IF merges /\ ~IsNode(next) THEN Res("fault", t, m, a, NULL)
                  ELSE LET m1 == link_next(m, block, block_size, next)
                       IN  Res("ok", t, link_prev(m, m1, prev, block), a, NULL)

\* The walk of malloc reads get_size(ptr) before it tests ptr: at the end
\* of the list it reads the size of nullptr.  A build that keeps the read
\* dies there; a build that drops the unused read goes on to return
\* nullptr.  elide says which.
RECURSIVE malloc_loop_hpp(_, _, _, _, _, _)
malloc_loop_hpp(m, ptr, prev, req, elide, fuel) ==
    IF ptr = NULL
    THEN [st |-> IF elide THEN "ok" ELSE "fault", ptr |-> NULL, prev |-> prev]
    ELSE IF ~IsNode(ptr) THEN [st |-> "fault", ptr |-> ptr, prev |-> prev]
    ELSE IF fuel = 0 THEN [st |-> "hang", ptr |-> ptr, prev |-> prev]
    ELSE IF get_size(m, ptr) < req
         THEN malloc_loop_hpp(m, get_next(m, ptr), ptr, req, elide, fuel - 1)
         ELSE [st |-> "ok", ptr |-> ptr, prev |-> prev]

malloc_hpp(t, m, a, bytes, elide) ==
    LET req == req_size(align_size, bytes)
        w == malloc_loop_hpp(m, t, NULL, req, elide, Fuel)
        ptr == w.ptr
        prev == w.prev
    IN  IF w.st # "ok" THEN Res(w.st, t, m, a, NULL)
        ELSE IF ptr = NULL THEN Res("ok", t, m, a, NULL)
        ELSE IF req = get_size(m, ptr)
        THEN IF prev # NULL
             THEN Res("ok", t, [m EXCEPT ![prev] = get_next(m, ptr)], a, ptr)
             ELSE Res("ok", get_next(m, ptr), m, a, ptr)
        ELSE LET new_free == (ptr + req) % SizeMod IN
             IF ~IsNode(new_free) THEN Res("fault", t, m, a, NULL)
             ELSE LET m1 == [m EXCEPT ![new_free] = get_next(m, ptr)]
                      old == IF hoist THEN get_size(m, ptr)
                                      ELSE get_size(m1, ptr)
                      m2 == [m1 EXCEPT ![new_free + WordSize]
                                = (old - req) % SizeMod]
                  IN  IF t = ptr THEN Res("ok", new_free, m2, a, ptr)
                      ELSE Res("ok", t, [m2 EXCEPT ![prev] = new_free], a, ptr)

AddBlockHpp ==
    \E reg \in RegionPool(scenario) :
        /\ Fresh(reg[1], reg[2])
        /\ LET r == add_block_hpp(top, mem, alloc_blocks, reg[1], reg[2])
           IN  Call("add_block", reg[1], r) /\ Register(reg[1], reg[2], r)

AddBlockFastHpp ==
    \E reg \in RegionPool(scenario) :
        /\ Fresh(reg[1], reg[2])
        /\ LET r == add_block_fast_hpp(top, mem, alloc_blocks, reg[1], reg[2])
           IN  Call("add_block_fast", reg[1], r) /\ Register(reg[1], reg[2], r)

MallocHpp ==
    \E bytes \in ReqPool(scenario), elide \in BOOLEAN :
        /\ Call("malloc", bytes, malloc_hpp(top, mem, alloc_blocks, bytes, elide))
        /\ UNCHANGED registered

NextHpp == AddBlockHpp \/ AddBlockFastHpp \/ MallocHpp

SpecHpp == Init /\ [][NextHpp]_vars

\* The addresses of the free list ascend strictly, and the list ends.
Sorted(t, m) ==
    LET fl == FreeList(t, m) IN
    /\ Terminates(m, t, Fuel)
    /\ \A i \in 1..(Len(fl) - 1) : fl[i][1] < fl[i + 1][1]

\* C18: in the variant of src/memmanager.hpp, add_block of a block below
\* the top of a sorted, non-empty free list makes the block the new top,
\* merged with the old top when it ends where the old top starts, and the
\* list stays sorted.
C18_BelowTop ==
    LET fl == FreeList(top, mem) IN
    top # NULL /\ Sorted(top, mem) =>
        \A reg \in {g \in RegionPool(scenario) :
                       /\ Fresh(g[1], g[2]) /\ g[1] < top
                       /\ g[2] >= HeaderSize /\ Aligned(align_size, g[1])} :
            LET r == add_block_hpp(top, mem, alloc_blocks, reg[1], reg[2]) IN
            /\ r.st = "ok"
            /\ r.top = reg[1]
            /\ Sorted(r.top, r.mem)
            /\ FreeList(r.top, r.mem) =
                   IF reg[1] + reg[2] = top
                   THEN << <<reg[1], reg[2] + fl[1][2]>> >> \o Tail(fl)
                   ELSE <<reg>> \o fl

-----------------------------------------------------------------------------
(* C19 *)

\* C19: the address a successful malloc returns is no key of the ledger
\* before the call and no node of the free list after it.
C19_DistinctAddresses ==
    \A b \in ReqPool(scenario) :
        LET r == malloc(top, mem, alloc_blocks, b) IN
        r.st = "ok" =>
            /\ r.ret \notin DOMAIN alloc_blocks
            /\ \A n \in NodeSet(r.top, r.mem) : n[1] # r.ret

-----------------------------------------------------------------------------
(* C20 *)

\* The free words S hold a run of r physically contiguous bytes (a run has
\* at least one word).
HasRun(S, r) ==
    \E x \in S :
        \A k \in 0..(((r + WordSize - 1) \div WordSize) - 1) :
            (x + WordSize * k) \in S

\* C20: after a call of defrag, malloc succeeds exactly when the bytes that
\* were free at the call hold a physically contiguous run of at least the
\* rounded request.
C20_DefragThenMalloc ==
    LET d == defrag(top, mem, alloc_blocks) IN
    Returned(d) =>
        \A b \in ReqPool(scenario) :
            LET r == malloc(d.top, d.mem, d.alloc, b) IN
            r.st = "ok" <=>
                HasRun(FreeWords(top, mem), req_size(align_size, b))

====
